---- MODULE Spec2Model ----
(***************************************************************************)
(* Model of sqlevents.py: the EventsDatabase class (construction, create,  *)
(* from_json) over a relational store that outlives the Python process.    *)
(*                                                                         *)
(* Strings whose characters the code inspects (experiment tags: startswith *)
(* and lower) are sequences of one-character strings.  Column names are    *)
(* only compared for equality and stay plain strings.                      *)
(***************************************************************************)
EXTENDS Integers, Sequences, FiniteSets, TLC

VARIABLES
    store,       \* the database behind `engine`: the two tables, persistent
    assigned,    \* module-level COLUMNS: the groups whose Column objects are bound to a Table
    sharedMeta,  \* a MetaData object the caller keeps and may pass as meta=
    db,          \* the EventsDatabase object the caller holds (or NoDb)
    call         \* the last call: its arguments, its outcome, the tables before it

vars == <<store, assigned, sharedMeta, db, call>>

---------------------------------------------------------------------------
(* Bounds of the model *)

MaxRecords == 2     \* records per JSON document
MaxRows == 3        \* rows the events table may hold

---------------------------------------------------------------------------
(* Strings *)

FR1 == <<"F", "R", "1">>
FR2 == <<"F", "R", "2">>
fr1 == <<"f", "r", "1">>
catFR1 == <<"c", "a", "t", "F", "R", "1">>
PAL1 == <<"P", "A", "L", "1">>
PAL2 == <<"P", "A", "L", "2">>
XYZ == <<"X", "Y", "Z">>

\* str.lower on one character (the characters the tags use)
LowerChar(c) ==
    CASE c = "F" -> "f" [] c = "R" -> "r" [] c = "P" -> "p" [] c = "A" -> "a"
      [] c = "L" -> "l" [] c = "X" -> "x" [] c = "Y" -> "y" [] c = "Z" -> "z"
      [] OTHER -> c

\* str.lower
Lower(s) == [i \in DOMAIN s |-> LowerChar(s[i])]

\* str.startswith
StartsWith(s, p) == Len(s) >= Len(p) /\ SubSeq(s, 1, Len(p)) = p

---------------------------------------------------------------------------
(* COLUMNS: the column names of each group, in declared order *)

COLUMNS ==
    [common |-> <<"id", "stim_id", "subject", "montage", "experiment", "session",
                  "type", "mstime", "eegoffset", "eegfile", "exp_version">>,
     stim |-> <<"id", "anode_number", "cathode_number", "anode_label",
                "cathode_label", "amplitude", "pulse_freq", "n_pulses",
                "burst_freq", "n_bursts", "pulse_width", "stim_on", "stim_duration">>,
     FR |-> <<"list", "serialpos", "item_name", "item_num", "recalled", "rectime",
              "intrusion", "stim_list", "is_stim">>,
     catFR |-> <<"category", "category_num">>,
     PAL |-> <<"resp_word", "probe_word", "probepos", "cue_direction", "is_stim",
               "resp_pass", "RT", "rectime", "serialpos", "stim_list", "correct",
               "study_1", "study_2", "vocalization", "stim_type", "intrusion",
               "list", "expecting_word">>]

\* variant: membership decided by family prefix alone
allowed_experiments_byPrefix == {FR1, FR2, catFR1, PAL1, PAL2}

allowed_experiments == {FR1, catFR1, PAL1, PAL2}

RECURSIVE Concat(_)
\* list concatenation of the named groups' columns (COLUMNS[a] + COLUMNS[b] + ...)
Concat(gs) == IF gs = <<>> THEN <<>> ELSE COLUMNS[Head(gs)] \o Concat(Tail(gs))

Range(s) == {s[i] : i \in DOMAIN s}

Min(S) == CHOOSE x \in S : \A y \in S : x <= y

---------------------------------------------------------------------------
(* sqlalchemy: MetaData and Table *)

NoTable == <<>>     \* the MetaData holds no Table of that name

\* sa.MetaData(): no tables
EmptyMeta == [events |-> NoTable, stim_params |-> NoTable]

\* Table(name, meta, *columns).  A name the MetaData already holds is an
\* InvalidRequestError.  A Column object that already belongs to a Table is an
\* ArgumentError: the columns before it keep their binding to the abandoned
\* Table, and the MetaData drops the half-built Table.  (The Column objects of
\* a group are always bound together, so binding is tracked per group.)
TableNew(meta, asg, name, groups) ==
    IF meta[name] # NoTable
    THEN [result |-> "InvalidRequestError", meta |-> meta, assigned |-> asg,
          columns |-> <<>>]
    ELSE LET bad == {i \in DOMAIN groups : groups[i] \in asg}
         IN IF bad = {}
            THEN [result |-> "ok",
                  meta |-> [meta EXCEPT ![name] = Concat(groups)],
                  assigned |-> asg \cup Range(groups),
                  columns |-> Concat(groups)]
            ELSE [result |-> "ArgumentError", meta |-> meta,
                  assigned |-> asg \cup {groups[i] : i \in 1 .. (Min(bad) - 1)},
                  columns |-> <<>>]

\* Table(name, meta, autoload=True, autoload_with=engine): the columns come
\* from the store; reflecting a table with a foreign key also reflects the
\* table the key points to.
TableAutoload(meta, st, name) ==
    IF meta[name] # NoTable
    THEN [result |-> "ok", meta |-> meta, columns |-> meta[name]]
    ELSE IF ~st[name].exists
    THEN [result |-> "NoSuchTableError", meta |-> meta, columns |-> <<>>]
    ELSE LET m1 == [meta EXCEPT ![name] = st[name].cols]
             m2 == IF st[name].fk /\ m1.stim_params = NoTable /\ st.stim_params.exists
                   THEN [m1 EXCEPT !.stim_params = st.stim_params.cols]
                   ELSE m1
         IN [result |-> "ok", meta |-> m2, columns |-> st[name].cols]

---------------------------------------------------------------------------
(* EventsDatabase *)

\* variant: the PAL branch extends the FR columns instead of the common ones
FamilyGroups_palOnFR(exp_type) ==
    IF StartsWith(exp_type, <<"F", "R">>) THEN <<"common", "FR">>
    ELSE IF StartsWith(exp_type, <<"c", "a", "t", "F", "R">>)
    THEN <<"common", "FR", "catFR">>
    ELSE IF StartsWith(exp_type, <<"P", "A", "L">>) THEN <<"common", "FR", "PAL">>
    ELSE <<>>

\* the column groups _make_events_table picks for an experiment type; <<>>
\* when no branch binds `columns`
FamilyGroups(exp_type) ==
    IF StartsWith(exp_type, <<"F", "R">>) THEN <<"common", "FR">>
    ELSE IF StartsWith(exp_type, <<"c", "a", "t", "F", "R">>)
    THEN <<"common", "FR", "catFR">>
    ELSE IF StartsWith(exp_type, <<"P", "A", "L">>) THEN <<"common", "PAL">>
    ELSE <<>>

\* _make_events_table: declare the table; on ArgumentError reflect it
make_events_table(exp_type, meta, asg, st) ==
    LET groups == FamilyGroups(exp_type)
    IN IF groups = <<>>
       THEN [result |-> "UnboundLocalError", meta |-> meta, assigned |-> asg,
             columns |-> <<>>]
       ELSE LET t == TableNew(meta, asg, "events", groups)
            IN IF t.result = "ArgumentError"
               THEN LET r == TableAutoload(t.meta, st, "events")
                    IN [result |-> r.result, meta |-> r.meta,
                        assigned |-> t.assigned, columns |-> r.columns]
               ELSE t

NoDb ==
    [live |-> FALSE, exp_type |-> <<>>, debug |-> FALSE, usesShared |-> FALSE,
     ownMeta |-> EmptyMeta, events |-> <<>>]

\* EventsDatabase.__init__: the outcome, the MetaData and the Column bindings
\* it leaves, and the columns of the events handle
Construct(exp_type, meta, asg, st) ==
    IF exp_type \notin allowed_experiments
    THEN [result |-> "AssertionError", meta |-> meta, assigned |-> asg,
          columns |-> <<>>]
    ELSE LET e == make_events_table(exp_type, meta, asg, st)
         IN IF e.result # "ok"
            THEN e
            ELSE LET s == TableNew(e.meta, e.assigned, "stim_params", <<"stim">>)
                 IN [result |-> s.result, meta |-> s.meta,
                     assigned |-> s.assigned, columns |-> e.columns]

\* self.meta
MetaOf(d) == IF d.usesShared THEN sharedMeta ELSE d.ownMeta

---------------------------------------------------------------------------
(* The store *)

NoStoreTable == [exists |-> FALSE, cols |-> <<>>, rows |-> <<>>, fk |-> FALSE]

EmptyStore == [events |-> NoStoreTable, stim_params |-> NoStoreTable]

\* meta.create_all(bind=engine): each table of the MetaData that the store
\* lacks is created, with its constraints; the others are left alone
CreateAll(meta, st) ==
    LET made(n) == IF meta[n] # NoTable /\ ~st[n].exists
                   THEN [exists |-> TRUE, cols |-> meta[n], rows |-> <<>>,
                         fk |-> n = "events"]
                   ELSE st[n]
    IN [events |-> made("events"), stim_params |-> made("stim_params")]

\* NULL / NaN in a stim_id cell (a frame without a stim_id column inserts
\* NULL there); generated identifiers are 1, 2, ...
Null == 0

\* variant: if_exists='replace'
ToSql_replace(t, cols, rows, reject) ==
    IF reject
    THEN [ok |-> FALSE, table |-> t]
    ELSE [ok |-> TRUE,
          table |-> [exists |-> TRUE, cols |-> cols, rows |-> rows, fk |-> FALSE]]

\* DataFrame.to_sql(name, engine, if_exists='append', index=False) of the
\* rows `rows` with the columns `cols`.  A missing table is created from the
\* frame's columns.  The insert is one transaction: it is rejected as a whole
\* when the table lacks one of the frame's columns or when the store refuses
\* it (reject), and else appends the rows in order.
ToSql(t, cols, rows, reject) ==
    LET t0 == IF t.exists THEN t
              ELSE [exists |-> TRUE, cols |-> cols, rows |-> <<>>, fk |-> FALSE]
    IN IF ~(Range(cols) \subseteq Range(t0.cols)) \/ reject
       THEN [ok |-> FALSE, table |-> t0]
       ELSE [ok |-> TRUE,
             table |-> [t0 EXCEPT !.rows = @ \o rows]]

---------------------------------------------------------------------------
(* JSON documents *)

\* stim_params: [] (any other value is a record with that amplitude)
EmptyStim == 0

\* the fields of the records of a document: those of its family, and none
\* for an empty document (pd.read_json gives a frame without columns)
DocFields(doc) ==
    IF doc.records = <<>> THEN {}
    ELSE (Range(COLUMNS.common) \ {"id", "stim_id"}) \cup {"stim_params"} \cup
         (CASE doc.fields = "FR" -> Range(COLUMNS.FR)
            [] doc.fields = "catFR" -> Range(COLUMNS.FR) \cup Range(COLUMNS.catFR)
            [] doc.fields = "PAL" -> Range(COLUMNS.PAL))

\* [s for s in events.stim_params if s != []]
Stims(records) ==
    SelectSeq([i \in DOMAIN records |-> records[i].stim_params],
              LAMBDA s : s # EmptyStim)

\* stims_df: one row per surviving stim record, row k with the k-th identifier
StimsDf(records, nid) ==
    [k \in DOMAIN Stims(records) |-> [id |-> nid + k, amplitude |-> Stims(records)[k]]]

\* variant: one identifier for the whole call
Df_oneId(records, nid) ==
    LET M == Len(Stims(records))
    IN [i \in DOMAIN records |->
           [experiment |-> records[i].experiment, mstime |-> records[i].mstime,
            stim_id |-> IF i <= M THEN nid + 1 ELSE Null]]

\* df after df['stim_id'] = stims_df['id']: the assignment aligns the two
\* frames on their row labels 0..N-1 and 0..M-1, so row i takes the identifier
\* of stims_df's row i, and NaN when stims_df has no row i
Df(records, nid) ==
    LET M == Len(Stims(records))
    IN [i \in DOMAIN records |->
           [experiment |-> records[i].experiment, mstime |-> records[i].mstime,
            stim_id |-> IF i <= M THEN nid + i ELSE Null]]

\* lines 172-180: the events append.  Debug mode inserts the rows one by one,
\* each in its own transaction, and stops at the first rejected one;
\* rejectAt names the row the store refuses (0: none).
EventsAppend(t, cols, rows, debug, rejectAt) ==
    IF debug
    THEN LET RECURSIVE step(_, _)
             step(tab, i) ==
                 IF i > Len(rows) THEN [ok |-> TRUE, table |-> tab]
                 ELSE LET r == ToSql(tab, cols, <<rows[i]>>, rejectAt = i)
                      IN IF r.ok THEN step(r.table, i + 1) ELSE r
         IN step(t, 1)
    ELSE ToSql(t, cols, rows, rejectAt # 0)

Max(S) == CHOOSE x \in S : \A y \in S : x >= y

\* uuid.uuid4().hex yields an identifier no row holds: identifiers are
\* numbered, and a call's k-th identifier is the k-th number above every
\* identifier in the store
UsedIds(st) ==
    {st.events.rows[i].stim_id : i \in DOMAIN st.events.rows} \cup
    {st.stim_params.rows[i].id : i \in DOMAIN st.stim_params.rows} \cup {Null}

\* variant: the experiment is asserted after the appends
FromJson_lateAssert(d, st, doc, rejectAt, rejectStim) ==
    LET columns == SelectSeq(d.events, LAMBDA c : c \notin {"id", "stim_id"})
        recs == doc.records
        M == Len(Stims(recs))
        nid == Max(UsedIds(st))
        dfcols == IF M > 0 THEN columns \o <<"stim_id">> ELSE columns
        ev == EventsAppend(st.events, dfcols, Df(recs, nid), d.debug, rejectAt)
        st1 == [st EXCEPT !.events = ev.table]
        sp == ToSql(st1.stim_params, <<"amplitude", "id">>, StimsDf(recs, nid),
                    rejectStim)
        st2 == [st1 EXCEPT !.stim_params = sp.table]
    IN IF ~(Range(columns) \subseteq DocFields(doc))
       THEN [result |-> "KeyError", store |-> st]
       ELSE IF ~ev.ok
       THEN [result |-> "EventsAppendError", store |-> st1]
       ELSE IF M > 0 /\ ~sp.ok
       THEN [result |-> "StimAppendError", store |-> st2]
       ELSE IF Lower(recs[1].experiment) # Lower(d.exp_type)
       THEN [result |-> "AssertionError", store |-> IF M > 0 THEN st2 ELSE st1]
       ELSE [result |-> "ok", store |-> IF M > 0 THEN st2 ELSE st1]

\* variant: the stim rows are appended before the event rows
FromJson_stimFirst(d, st, doc, rejectAt, rejectStim) ==
    LET columns == SelectSeq(d.events, LAMBDA c : c \notin {"id", "stim_id"})
        recs == doc.records
        M == Len(Stims(recs))
        nid == Max(UsedIds(st))
        dfcols == IF M > 0 THEN columns \o <<"stim_id">> ELSE columns
        sp == ToSql(st.stim_params, <<"amplitude", "id">>, StimsDf(recs, nid),
                    rejectStim)
        st1 == IF M > 0 THEN [st EXCEPT !.stim_params = sp.table] ELSE st
        ev == EventsAppend(st1.events, dfcols, Df(recs, nid), d.debug, rejectAt)
        st2 == [st1 EXCEPT !.events = ev.table]
    IN IF ~(Range(columns) \subseteq DocFields(doc))
       THEN [result |-> "KeyError", store |-> st]
       ELSE IF Lower(recs[1].experiment) # Lower(d.exp_type)
       THEN [result |-> "AssertionError", store |-> st]
       ELSE IF M > 0 /\ ~sp.ok
       THEN [result |-> "StimAppendError", store |-> st1]
       ELSE IF ~ev.ok
       THEN [result |-> "EventsAppendError", store |-> st2]
       ELSE [result |-> "ok", store |-> st2]

\* EventsDatabase.from_json: the outcome and the store it leaves
FromJson(d, st, doc, rejectAt, rejectStim) ==
    LET columns == SelectSeq(d.events, LAMBDA c : c \notin {"id", "stim_id"})
        recs == doc.records
        M == Len(Stims(recs))
        nid == Max(UsedIds(st))
        dfcols == IF M > 0 THEN columns \o <<"stim_id">> ELSE columns
        ev == EventsAppend(st.events, dfcols, Df(recs, nid), d.debug, rejectAt)
        st1 == [st EXCEPT !.events = ev.table]
        sp == ToSql(st1.stim_params, <<"amplitude", "id">>, StimsDf(recs, nid),
                    rejectStim)
        st2 == [st1 EXCEPT !.stim_params = sp.table]
    IN IF ~(Range(columns) \subseteq DocFields(doc))
       THEN [result |-> "KeyError", store |-> st]
       ELSE IF Lower(recs[1].experiment) # Lower(d.exp_type)
       THEN [result |-> "AssertionError", store |-> st]
       ELSE IF ~ev.ok
       THEN [result |-> "EventsAppendError", store |-> st1]
       ELSE IF M = 0
       THEN [result |-> "ok", store |-> st1]
       ELSE IF ~sp.ok
       THEN [result |-> "StimAppendError", store |-> st2]
       ELSE [result |-> "ok", store |-> st2]

---------------------------------------------------------------------------
(* Inputs *)

StimValues == {EmptyStim, 1}

\* the experiment a later record may carry when it is not the first record's
Other(e) == IF e = PAL1 THEN FR1 ELSE PAL1

\* the family whose fields the session that recorded experiment e writes
FamilyOf(e) ==
    IF StartsWith(Lower(e), <<"p", "a", "l">>) THEN "PAL"
    ELSE IF StartsWith(Lower(e), <<"c", "a", "t">>) THEN "catFR"
    ELSE "FR"

\* the record sequences of length n: the first record's experiment is e, a
\* later record repeats it or (when mixed) carries another one; mstime tells
\* the records of a document apart; stim_params are drawn from S
RecordsOfLen(e, n, S, mixed) ==
    {[i \in 1 .. n |->
        [experiment |-> IF i = 1 \/ same[i] THEN e ELSE Other(e), mstime |-> i,
         stim_params |-> s[i]]] :
        same \in [1 .. n -> IF mixed THEN BOOLEAN ELSE {TRUE}], s \in [1 .. n -> S]}

NoDoc == [fields |-> "none", records |-> <<>>]

\* the documents of at most MaxRecords records whose first record is of an
\* experiment in E, with the fields of that experiment's family
DocsOver(E, S, mixed) ==
    {NoDoc} \cup
    UNION {{[fields |-> FamilyOf(e), records |-> r] :
                r \in UNION {RecordsOfLen(e, n, S, mixed) : n \in 1 .. MaxRecords}} :
           e \in E}

\* the loading specification: one experiment type, every shape of document
LoadTags == {FR1, XYZ}
LoadDocs == DocsOver({FR1, fr1, catFR1, PAL1}, StimValues, TRUE)

\* the binding specification: every tag, fresh and reused MetaData, and
\* documents of one experiment without stimulation
BindTags == {FR1, catFR1, PAL1, PAL2, FR2, fr1, XYZ}
BindDocs == DocsOver({FR1, catFR1, PAL1, PAL2}, {EmptyStim}, FALSE)

---------------------------------------------------------------------------
(* The state machine *)

Pre == [store |-> store, sharedMeta |-> sharedMeta, assigned |-> assigned]

Init ==
    /\ store = EmptyStore
    /\ assigned = {}
    /\ sharedMeta = EmptyMeta
    /\ db = NoDb
    /\ call = [op |-> "start", result |-> "ok", exp_type |-> <<>>, doc |-> NoDoc,
               pre |-> [store |-> EmptyStore, sharedMeta |-> EmptyMeta,
                        assigned |-> {}]]

\* No caller in the source catches an exception: a call that raises ends the
\* process, and the next step is a new process (restart).

\* db = EventsDatabase(exp_type, engine, meta=..., debug=...)
EventsDatabase_init(tags, metas, debugs) ==
    /\ call.result = "ok"
    /\ \E exp_type \in tags, useShared \in metas, debug \in debugs :
        LET r == Construct(exp_type, IF useShared THEN sharedMeta ELSE EmptyMeta,
                           assigned, store)
        IN /\ assigned' = r.assigned
           /\ sharedMeta' = IF useShared THEN r.meta ELSE sharedMeta
           /\ db' = IF r.result = "ok"
                    THEN [live |-> TRUE, exp_type |-> exp_type, debug |-> debug,
                          usesShared |-> useShared,
                          ownMeta |-> IF useShared THEN EmptyMeta ELSE r.meta,
                          events |-> r.columns]
                    ELSE db
           /\ call' = [op |-> "init", result |-> r.result, exp_type |-> exp_type,
                       doc |-> NoDoc, pre |-> Pre]
           /\ UNCHANGED store

\* db.create()
create ==
    /\ call.result = "ok"
    /\ db.live
    /\ store' = CreateAll(MetaOf(db), store)
    /\ call' = [op |-> "create", result |-> "ok", exp_type |-> db.exp_type,
                doc |-> NoDoc, pre |-> Pre]
    /\ UNCHANGED <<assigned, sharedMeta, db>>

\* db.from_json(path), the file at path holding doc.  rejectAt and rejectStim
\* are the store's choice to refuse an insert into events (the row it refuses;
\* a batch is refused as a whole) or into stim_params.
from_json(docs) ==
    /\ call.result = "ok"
    /\ db.live
    /\ \E doc \in docs :
        /\ Len(store.events.rows) + Len(doc.records) <= MaxRows
        /\ \E rejectAt \in 0 .. (IF db.debug THEN Len(doc.records) ELSE 1),
              rejectStim \in IF Stims(doc.records) # <<>> THEN BOOLEAN ELSE {FALSE} :
            LET r == FromJson(db, store, doc, rejectAt, rejectStim)
            IN /\ store' = r.store
               /\ call' = [op |-> "from_json", result |-> r.result,
                           exp_type |-> db.exp_type, doc |-> doc, pre |-> Pre]
    /\ UNCHANGED <<assigned, sharedMeta, db>>

\* the interpreter exits and a new one imports the module: the module-level
\* Column objects and every MetaData are new, the store is what it was
restart ==
    /\ assigned' = {}
    /\ sharedMeta' = EmptyMeta
    /\ db' = NoDb
    /\ call' = [op |-> "restart", result |-> "ok", exp_type |-> <<>>,
                doc |-> NoDoc, pre |-> Pre]
    /\ UNCHANGED store

InitLoad == EventsDatabase_init(LoadTags, {FALSE}, BOOLEAN)

FromJsonLoad == from_json(LoadDocs)

Next == InitLoad \/ create \/ FromJsonLoad \/ restart

Spec == Init /\ [][Next]_vars

InitBind == EventsDatabase_init(BindTags, BOOLEAN, {FALSE})

FromJsonBind == from_json(BindDocs)

NextBind == InitBind \/ create \/ FromJsonBind \/ restart

SpecBind == Init /\ [][NextBind]_vars

---------------------------------------------------------------------------
(* Reading the last call *)

Loaded == call.op = "from_json"

LoadedOk == Loaded /\ call.result = "ok"

Recs == call.doc.records

IsPrefix(a, b) == Len(a) <= Len(b) /\ SubSeq(b, 1, Len(a)) = a

\* the rows the last call added to a table
Added(before, after) == SubSeq(after, Len(before) + 1, Len(after))

NewEvents == Added(call.pre.store.events.rows, store.events.rows)

NewStims == Added(call.pre.store.stim_params.rows, store.stim_params.rows)

\* a row or record without the store-assigned and generated identifiers
Strip(rows) ==
    [i \in DOMAIN rows |-> [experiment |-> rows[i].experiment, mstime |-> rows[i].mstime]]

\* how many of the first i records carry a non-empty stim_params
Rank(records, i) == Len(Stims(SubSeq(records, 1, i)))

RowsUnchanged ==
    /\ store.events.rows = call.pre.store.events.rows
    /\ store.stim_params.rows = call.pre.store.stim_params.rows

---------------------------------------------------------------------------
(* Claims *)

\* C1: after a successful load of a document with at least one non-empty
\* stim_params, the events row of each record that carried a stim_params
\* holds the identifier of the stim_params row made from that record, and the
\* events row of each record with an empty stim_params holds a null stim_id.
\* (The statement of the claim; the code violates it.)
C1_StimIdOnCarryingRow ==
    (LoadedOk /\ Stims(Recs) # <<>>) =>
        \A i \in DOMAIN Recs :
            IF Recs[i].stim_params = EmptyStim
            THEN NewEvents[i].stim_id = Null
            ELSE NewEvents[i].stim_id = NewStims[Rank(Recs, i)].id

\* C2: a successful load of N records, M of them with a non-empty
\* stim_params, adds exactly N rows to events and M rows to stim_params after
\* the rows already there; and in every state the identifiers of the
\* stim_params rows are pairwise distinct and each is the stim_id of exactly
\* one events row.
C2_RowCountsAndUniqueIds ==
    /\ LoadedOk =>
        /\ IsPrefix(call.pre.store.events.rows, store.events.rows)
        /\ IsPrefix(call.pre.store.stim_params.rows, store.stim_params.rows)
        /\ Len(NewEvents) = Len(Recs)
        /\ Len(NewStims) = Len(Stims(Recs))
    /\ \A j, k \in DOMAIN store.stim_params.rows :
        store.stim_params.rows[j].id = store.stim_params.rows[k].id => j = k
    /\ \A j \in DOMAIN store.stim_params.rows :
        Cardinality({i \in DOMAIN store.events.rows :
            store.events.rows[i].stim_id = store.stim_params.rows[j].id}) = 1

\* a second load, of more records than stim records, onto a non-empty table
C2_Witness ==
    /\ LoadedOk
    /\ call.pre.store.stim_params.rows # <<>>
    /\ Len(Stims(Recs)) >= 1
    /\ Len(Recs) > Len(Stims(Recs))

\* the document's declared experiment (its first record's) differs from the
\* bound type, ignoring case
Mismatch == Loaded /\ Recs # <<>> /\ Lower(Recs[1].experiment) # Lower(call.exp_type)

\* the document carries every column of the bound table
HasBoundColumns == Range(db.events) \ {"id", "stim_id"} \subseteq DocFields(call.doc)

C4_RowsOfBoundExperiment ==
    Loaded =>
        \A i \in DOMAIN NewEvents :
            Lower(NewEvents[i].experiment) = Lower(call.exp_type)

\* C5: constructing against a store that already holds an events table gives
\* an events handle with that table's columns.  (The statement of the claim;
\* the code violates it.)
C5_ExistingShapeWins ==
    (call.op = "init" /\ call.result = "ok" /\ call.pre.store.events.exists) =>
        db.events = call.pre.store.events.cols

\* C6: no call removes or replaces events rows, and a successful load adds
\* the document's records, in the document's order, after the rows already
\* there; so loading a document twice leaves its rows followed by themselves.
C6_AppendCumulative ==
    /\ IsPrefix(call.pre.store.events.rows, store.events.rows)
    /\ LoadedOk => Strip(NewEvents) = Strip(Recs)
    /\ (LoadedOk /\ Strip(call.pre.store.events.rows) = Strip(Recs)) =>
            Strip(store.events.rows) = Strip(Recs) \o Strip(Recs)

\* the same document loaded twice into an initially empty store
C6_Witness ==
    /\ LoadedOk
    /\ Recs # <<>>
    /\ Strip(call.pre.store.events.rows) = Strip(Recs)
    /\ Strip(store.events.rows) = Strip(Recs) \o Strip(Recs)

\* C7: constructing with a tag outside {FR1, catFR1, PAL1, PAL2} fails with
\* the assertion and changes neither the store, nor the MetaData, nor the
\* Column bindings, nor the caller's object; constructing with a tag of the
\* set never fails for want of a column list.
C7_UnsupportedTagRejected ==
    call.op = "init" =>
        IF call.exp_type \in {FR1, catFR1, PAL1, PAL2}
        THEN call.result # "UnboundLocalError"
        ELSE /\ call.result = "AssertionError"
             /\ store = call.pre.store
             /\ sharedMeta = call.pre.sharedMeta
             /\ assigned = call.pre.assigned

\* FR2, which begins with a family prefix, refused on a store holding tables,
\* in a process that has declared none
C7_Witness ==
    /\ call.op = "init"
    /\ call.exp_type = FR2
    /\ call.result = "AssertionError"
    /\ store.events.exists
    /\ assigned = {}

\* the column list the claim gives for each tag
C8_Expected(tag) ==
    CASE tag = FR1 -> COLUMNS.common \o COLUMNS.FR
      [] tag = catFR1 -> COLUMNS.common \o COLUMNS.FR \o COLUMNS.catFR
      [] tag = PAL1 -> COLUMNS.common \o COLUMNS.PAL
      [] tag = PAL2 -> COLUMNS.common \o COLUMNS.PAL

\* the family of a tag, resolving the prefixes in the order catFR, FR, PAL
C8_ByPriority(tag) ==
    IF StartsWith(tag, <<"c", "a", "t", "F", "R">>)
    THEN COLUMNS.common \o COLUMNS.FR \o COLUMNS.catFR
    ELSE IF StartsWith(tag, <<"F", "R">>) THEN COLUMNS.common \o COLUMNS.FR
    ELSE IF StartsWith(tag, <<"P", "A", "L">>) THEN COLUMNS.common \o COLUMNS.PAL
    ELSE <<>>

\* C8: the events handle of a constructed object has the common columns in
\* declared order followed by the columns of the one family of its tag
\* (catFR1: FR then catFR; FR1: FR; PAL1, PAL2: PAL), which is also what
\* resolving the prefixes in the order catFR, FR, PAL gives.
C8_ColumnsOfFamily ==
    db.live =>
        /\ db.exp_type \in {FR1, catFR1, PAL1, PAL2}
        /\ db.events = C8_Expected(db.exp_type)
        /\ db.events = C8_ByPriority(db.exp_type)

\* objects of the catFR and of the PAL family, on a store shaped for another
C8_Witness ==
    /\ db.live
    /\ db.exp_type \in {catFR1, PAL2}
    /\ store.events.exists
    /\ store.events.cols # db.events

\* C9: every non-null stim_id in the events table is the id of a stim_params
\* row.  (The statement of the claim; the code violates it.)
C9_NoDanglingStimId ==
    \A i \in DOMAIN store.events.rows :
        store.events.rows[i].stim_id # Null =>
            \E j \in DOMAIN store.stim_params.rows :
                store.stim_params.rows[j].id = store.events.rows[i].stim_id

\* C10: without debug, a load whose events append the store rejects ends
\* with that error and adds no row to events and no row to stim_params.
C10_RejectedBatchLeavesNoRows ==
    (Loaded /\ ~db.debug /\ call.result = "EventsAppendError") => RowsUnchanged

\* a rejected batch that carried stim records, onto non-empty tables
C10_Witness ==
    /\ Loaded
    /\ ~db.debug
    /\ call.result = "EventsAppendError"
    /\ Stims(Recs) # <<>>
    /\ call.pre.store.events.rows # <<>>
    /\ call.pre.store.stim_params.rows # <<>>

====
